---- MODULE Spec2Model ----
(***************************************************************************)
(* The streaming session protocol of the ASR server (src/server.py):       *)
(* ASRServer.process_audio, one handler task per websocket connection on   *)
(* a single asyncio event loop, and ASRServer.recognize_audio, the         *)
(* dispatch of a session's buffered audio to the shared recognizer.        *)
(*                                                                         *)
(* Audio bytes are kept run-length encoded: a frame <<b, n>> is n copies   *)
(* of the byte b, a buffer is a sequence of such runs in which adjacent    *)
(* runs carry different bytes, so two buffers are equal exactly when the   *)
(* byte strings they stand for are equal.                                  *)
(***************************************************************************)
EXTENDS Integers, Sequences, FiniteSets, TLC

\* ---------------------------------------------------------------- bounds
\* messages each client puts on the wire in the two-connection scenario
MaxPair == 2
\* messages the client of the one-connection scenario puts on the wire
MaxSolo == 4
\* messages the single client of the long-stream scenario puts on the wire
MaxStream == 11
\* messages that may wait in one connection's receive queue
MaxInbox == 2

\* ------------------------------------------------------ program constants
\* server.py:92, the dispatch threshold in bytes
Threshold == 32000
\* server.py:66 and :76, the sample rate of a session without config
DefaultRate == 16000
\* server.py:118, bytes per int16 sample
SampleWidth == 2

Conn == {1, 2}

\* ------------------------------------------------------------ byte strings
RECURSIVE BufLen(_)
\* len(audio_buffer)
BufLen(buf) == IF buf = <<>> THEN 0 ELSE Head(buf)[2] + BufLen(Tail(buf))

\* bytes + bytes on run-length encoded byte strings
Cat(a, b) ==
    IF a = <<>> THEN b
    ELSE IF b = <<>> THEN a
    ELSE IF a[Len(a)][1] = b[1][1]
         THEN SubSeq(a, 1, Len(a) - 1)
              \o << <<b[1][1], a[Len(a)][2] + b[1][2]>> >>
              \o Tail(b)
         ELSE a \o b

\* the byte string of one binary frame
FrameBytes(f) == IF f[2] = 0 THEN <<>> ELSE <<f>>

\* server.py:89, audio_buffer += message
AppendBytes(buf, f) == Cat(buf, FrameBytes(f))

AtLeastThreshold(buf) == BufLen(buf) >= Threshold

ExceedsTwiceThreshold(buf) == BufLen(buf) > 2 * Threshold

\* server.py:92, len(audio_buffer) > 32000
ExceedsThreshold(buf) == BufLen(buf) > Threshold

NeverEmptyAudio(buf) == FALSE

\* server.py:112, `if not audio_data`
IsEmptyAudio(buf) == buf = <<>>

\* server.py:118, np.frombuffer(audio_data, dtype=np.int16) raises ValueError
\* unless the byte length is a multiple of the item size
FromBufferOk(buf) == BufLen(buf) % SampleWidth = 0

\* ------------------------------------------------------- control messages
TxtConfig8k == "{\"type\": \"config\", \"sample_rate\": 8000}"
\* client.py:36-39, with self.sample_rate of client.py:17
TxtConfig16k == "{\"type\": \"config\", \"sample_rate\": 16000}"
TxtConfigBare == "{\"type\": \"config\"}"
TxtEof == "{\"type\": \"eof\"}"
TxtPing == "{\"type\": \"ping\"}"
TxtMalformed == "{\"type\": \"eof\""
TxtList == "[\"eof\"]"

\* what json.loads makes of a text: ok is FALSE when it raises JSONDecodeError,
\* isdict tells a JSON object from any other JSON value
Parsed(ok, isdict, type, hasRate, rate) ==
    [ok |-> ok, isdict |-> isdict, type |-> type, hasRate |-> hasRate, rate |-> rate]

\* server.py:73, json.loads(message)
JsonLoads(s) ==
    CASE s = TxtConfig8k -> Parsed(TRUE, TRUE, "config", TRUE, 8000)
      [] s = TxtConfigBare -> Parsed(TRUE, TRUE, "config", FALSE, 0)
      [] s = TxtConfig16k -> Parsed(TRUE, TRUE, "config", TRUE, 16000)
      [] s = TxtEof -> Parsed(TRUE, TRUE, "eof", FALSE, 0)
      [] s = TxtPing -> Parsed(TRUE, TRUE, "ping", FALSE, 0)
      [] s = TxtList -> Parsed(TRUE, FALSE, "", FALSE, 0)
      [] OTHER -> Parsed(FALSE, FALSE, "", FALSE, 0)

\* server.py:73-75: json.loads raises on malformed text, data.get raises
\* AttributeError on a JSON value that is no object
ControlRaises(s) == ~JsonLoads(s).ok \/ ~JsonLoads(s).isdict

\* server.py:75-79, data.get("type")
ControlType(s) == JsonLoads(s).type

\* server.py:76, data.get("sample_rate", 16000)
ConfigRate(s) == IF JsonLoads(s).hasRate THEN JsonLoads(s).rate ELSE DefaultRate

\* -------------------------------------------------------------- recognizer
\* One segment of a recognizer result's "timestamp" list.
Seg(isdict, hasText, text, hasStamp, stamp) ==
    [isdict |-> isdict, hasText |-> hasText, text |-> text,
     hasStamp |-> hasStamp, stamp |-> stamp]

\* What self.model.generate does: kind "raise" raises Exception(msg), kind
\* "list" returns a value that is no dict, kind "dict" returns a dict whose
\* "text" is absent, a str or None, and whose "timestamp" is absent, no list,
\* or a list of segments.
Outcome(kind, msg, textKind, text, stampKind, segs) ==
    [kind |-> kind, msg |-> msg, textKind |-> textKind, text |-> text,
     stampKind |-> stampKind, segs |-> segs]

OutRaise == Outcome("raise", "CUDA out of memory", "absent", "", "absent", <<>>)
OutList == Outcome("list", "", "absent", "", "absent", <<>>)
OutText ==
    Outcome("dict", "", "str", "hello", "list",
            << Seg(TRUE, TRUE, "hello", TRUE, <<0, 480>>),
               Seg(TRUE, TRUE, "x", TRUE, <<7>>),
               Seg(FALSE, FALSE, "", FALSE, <<>>) >>)
OutBare == Outcome("dict", "", "absent", "", "nolist", <<>>)
OutNone == Outcome("dict", "", "none", "", "absent", <<>>)

\* server.py:138, the literal error text of a result that is no dict: eight
\* characters outside ASCII, written here as json.dumps (server.py:95) puts
\* them on the connection, one \uXXXX escape for each
ShapeErrorText == "\\u6a21\\u578b\\u8fd4\\u56de\\u683c\\u5f0f\\u9519\\u8bef"
\* str(e) of the TypeError len(None) raises at server.py:166
NoLenText == "object of type 'NoneType' has no len()"

Result(text, haserror, error, timestamps) ==
    [text |-> text, haserror |-> haserror, error |-> error,
     timestamps |-> timestamps]

\* server.py:114
EmptyResult == Result("", FALSE, "", <<>>)

RECURSIVE MapSegments(_)
\* server.py:151-162: a segment is kept when it is a dict with "text" and
\* "timestamp" and timestamp[0], timestamp[1] exist; otherwise it is logged
\* and skipped
MapSegments(segs) ==
    IF segs = <<>> THEN <<>>
    ELSE LET s == Head(segs)
             rest == MapSegments(Tail(segs))
         IN  IF s.isdict /\ s.hasText /\ s.hasStamp /\ Len(s.stamp) >= 2
             THEN << [text |-> s.text, start |-> s.stamp[1], end |-> s.stamp[2]] >>
                  \o rest
             ELSE rest

MapResultLossy(out) ==
    IF out.kind = "dict" /\ out.textKind = "str"
    THEN Result(out.text, FALSE, "", <<>>)
    ELSE EmptyResult

\* server.py:121-174, from the return of self.model.generate to the dict
\* recognize_audio returns
MapResult(out) ==
    IF out.kind = "raise" THEN Result("", TRUE, out.msg, <<>>)
    ELSE IF out.kind # "dict" THEN Result("", TRUE, ShapeErrorText, <<>>)
    ELSE IF out.textKind = "none" THEN Result("", TRUE, NoLenText, <<>>)
    ELSE Result(IF out.textKind = "str" THEN out.text ELSE "",
                FALSE, "",
                IF out.stampKind = "list" THEN MapSegments(out.segs) ELSE <<>>)

\* ---------------------------------------------------------------- messages
\* A message on the wire: seq numbers the client's sends, bin tells a binary
\* frame (frame = <<byte, length>>) from a text (text).
TextMsg(n, s) == [seq |-> n, bin |-> FALSE, text |-> s, frame |-> <<0, 0>>]
BinMsg(n, f) == [seq |-> n, bin |-> TRUE, text |-> "", frame |-> f]

\* ---------------------------------------------------------------- scenarios
Scenario(conns, frames, texts, outs, msgs) ==
    [conns |-> conns, frames |-> frames, texts |-> texts, outs |-> outs,
     msgs |-> msgs]

\* two concurrent sessions, odd-sized frames that cross the threshold in two
PairScn ==
    Scenario({1, 2}, {<<2, 16001>>}, {TxtEof, TxtMalformed, TxtConfig8k},
             {OutRaise, OutText}, MaxPair)

\* one session, every kind of control message and recognizer outcome
SoloScn ==
    Scenario({1}, {<<1, 16000>>, <<2, 16001>>, <<1, 0>>},
             {TxtConfig8k, TxtConfigBare, TxtEof, TxtPing, TxtMalformed, TxtList},
             {OutRaise, OutList, OutText, OutBare, OutNone}, MaxSolo)

\* one session fed 3200-byte frames
StreamScn ==
    Scenario({1}, {<<1, 3200>>}, {TxtEof}, {OutText}, MaxStream)

Scenarios == {"pair", "solo", "stream"}

\* -------------------------------------------------------------------- state
VARIABLES
    scn,         \* the scenario run: "pair", "solo" or "stream"
    clients,     \* self.clients: connection id -> [audio_buffer, sample_rate]
    conn,        \* the transport: "none", "open", "closedOK", "closedError"
    pc,          \* the handler task: "idle", "recv", "generate", "send", "done"
    inbox,       \* messages received on the connection, not yet iterated
    pending,     \* the handler's local `result`: <<>> or <<result>>
    sent,        \* the Results put on the wire to the client, in order
    nsend,       \* how many messages the client has put on the wire
    handled,     \* seq of the last message the handler took
    fed,         \* the frames appended since the buffer was created or cleared
    dispatched,  \* the calls of recognize_audio, in order: the audio and rate
                 \* read (audio, rate), the message handled (at), "eof" or
                 \* "threshold" (cause), what self.model.generate did (out)
                 \* and what recognize_audio returned (res), <<>> until then
    ins,         \* how often clients[c] was inserted
    outs,        \* how often clients[c] was deleted
    exit         \* how the handler ended: "none", "normal", "closed", "error"

\* the ASRClient object of src/client.py, its two threads and its connection
VARIABLES
    loop,                \* self.loop: "None" or "loop"
    websocket,           \* self.websocket: "None" or "ws"
    audio,               \* self.audio: "PyAudio" or "None"
    links,               \* the connections websockets.connect has returned,
                         \* in order: each "up", "down", or "closing" once
                         \* the client has sent its close frame on it
    mails,               \* per connection, the messages of the server that
                         \* have arrived and recv has not returned yet
    stream,              \* self.stream: "None" or "open" (callbacks running)
    is_recording,        \* self.is_recording
    current_text,        \* self.current_text, a sequence of characters
    accumulated_text,    \* self.accumulated_text, a sequence of characters
    session_start_time,  \* self.session_start_time
    now,                 \* the last reading of time.time()
    mpc,                 \* the event-loop thread: "idle"; "starting" inside
                         \* start_recording at self.audio.open(), "started"
                         \* once the device has called back from there;
                         \* "stopping" inside stop_recording before
                         \* stop_stream() has returned
    cpc,                 \* connect(): "idle", or "connecting" at line 35
    dpc,                 \* disconnect(): "idle", or "closing" at line 169
    dws,                 \* the connection disconnect() is closing, else 0
    receiver,            \* the receive_results task: "off", "recv", "done"
    rws,                 \* the connection its recv waits on, else 0
    ready,               \* sends handed to the loop by run_coroutine_threadsafe
    wire,                \* what the client has written to the connection
    rx,                  \* history: messages received since the last reset
    narrived,            \* history: messages that have reached the client
    nrecv,               \* history: messages received in all
    nframes,             \* history: capture callbacks run
    stops,               \* history: stop_recording calls that passed the guard
    calls,               \* history: the start/stop calls made, in order
    connects             \* history: connect() calls made

cvars ==
    <<loop, websocket, audio, links, mails, stream, is_recording,
      current_text, accumulated_text, session_start_time, now, mpc, cpc, dpc,
      dws, receiver, rws, ready, wire, rx, narrived, nrecv, nframes, stops,
      calls, connects>>

svars ==
    <<clients, conn, pc, inbox, pending, sent, nsend, handled, fed,
      dispatched, ins, outs, exit>>

vars ==
    <<scn, clients, conn, pc, inbox, pending, sent, nsend, handled, fed,
      dispatched, ins, outs, exit, cvars>>

\* server.py:66
NewSession == [audio_buffer |-> <<>>, sample_rate |-> DefaultRate]

\* client.py:15-29, ASRClient.__init__, before main has connected
ClientNew ==
    /\ loop = "None"
    /\ websocket = "None"
    /\ audio = "PyAudio"
    /\ links = <<>>
    /\ mails = <<>>
    /\ stream = "None"
    /\ is_recording = FALSE
    /\ current_text = <<>>
    /\ accumulated_text = <<>>
    /\ session_start_time = 0
    /\ now = 1
    /\ mpc = "idle"
    /\ cpc = "idle"
    /\ dpc = "idle"
    /\ dws = 0
    /\ receiver = "off"
    /\ rws = 0
    /\ ready = <<>>
    /\ wire = <<>>
    /\ rx = <<>>
    /\ narrived = 0
    /\ nrecv = 0
    /\ nframes = 0
    /\ stops = 0
    /\ calls = <<>>
    /\ connects = 0

\* server.py:62, ASRServer.__init__: no session, nothing connected
ServerNew ==
    /\ clients = [c \in {} |-> NewSession]
    /\ conn = [c \in Conn |-> "none"]
    /\ pc = [c \in Conn |-> "idle"]
    /\ inbox = [c \in Conn |-> <<>>]
    /\ pending = [c \in Conn |-> <<>>]
    /\ sent = [c \in Conn |-> <<>>]
    /\ nsend = [c \in Conn |-> 0]
    /\ handled = [c \in Conn |-> 0]
    /\ fed = [c \in Conn |-> <<>>]
    /\ dispatched = [c \in Conn |-> <<>>]
    /\ ins = [c \in Conn |-> 0]
    /\ outs = [c \in Conn |-> 0]
    /\ exit = [c \in Conn |-> "none"]

Init ==
    /\ scn \in Scenarios
    /\ ServerNew
    /\ ClientNew

\* ------------------------------------------------------------------ helpers
\* who connects in the scenario run, and what they may send
Plan ==
    CASE scn = "pair" -> PairScn
      [] scn = "solo" -> SoloScn
      [] OTHER -> StreamScn

Put(cl, c, rec) == [d \in DOMAIN cl \cup {c} |-> IF d = c THEN rec ELSE cl[d]]

KeepAll(cl, c) == cl

DropAll(cl, c) == [d \in {} |-> NewSession]

\* server.py:102-105, the finally clause
Cleanup(cl, c) == [d \in DOMAIN cl \ {c} |-> cl[d]]

Buffer(c) == IF c \in DOMAIN clients THEN clients[c].audio_buffer ELSE <<>>

SetBuffer(cl, c, buf) == Put(cl, c, [cl[c] EXCEPT !.audio_buffer = buf])

\* the handler task of c has started and not ended
Running(c) == pc[c] \in {"recv", "generate", "send"}

LoopNeverBlocked == TRUE

\* the event loop is single-threaded and self.model.generate (server.py:124)
\* is a plain call: while it runs no coroutine of the loop is resumed
LoopIdle == \A d \in Conn : pc[d] # "generate"

ReceivesWhileSending(c) == pc[c] \in {"recv", "send"}

\* server.py:70, the handler is suspended in `async for message in websocket`
AtRecv(c) == pc[c] = "recv"

\* the handler of c may be resumed with the next message of the connection
Takes(c) == LoopIdle /\ AtRecv(c) /\ inbox[c] # <<>>

\* what every step of a handler that takes a message does to the queue
Took(c) ==
    /\ inbox' = [inbox EXCEPT ![c] = Tail(@)]
    /\ handled' = [handled EXCEPT ![c] = Head(inbox[c]).seq]

FlushedOnClose(cl, c) ==
    IF c \in DOMAIN cl /\ cl[c].audio_buffer # <<>>
    THEN <<EmptyResult>> ELSE <<>>

\* server.py:98-105: what the except and finally clauses send for the audio
\* left in the session's buffer: nothing
Flushed(cl, c) == <<>>

\* the handler leaves through except/finally (server.py:98-105)
Ends(c, cl, how) ==
    /\ clients' = Cleanup(cl, c)
    /\ sent' = [sent EXCEPT ![c] = @ \o Flushed(cl, c)]
    /\ outs' = [outs EXCEPT ![c] = IF c \in DOMAIN cl THEN @ + 1 ELSE @]
    /\ pc' = [pc EXCEPT ![c] = "done"]
    /\ exit' = [exit EXCEPT ![c] = how]
    /\ pending' = [pending EXCEPT ![c] = <<>>]

\* server.py:82/94 with 107-132: recognize_audio is called on the session as
\* cl holds it; it returns at once on empty audio, raises ValueError out of
\* np.frombuffer on a byte length that is no whole number of samples, and
\* otherwise enters self.model.generate
Dispatch(c, cl, cause) ==
    /\ dispatched' =
         [dispatched EXCEPT ![c] =
            Append(@, [audio |-> cl[c].audio_buffer, rate |-> cl[c].sample_rate,
                       at |-> Head(inbox[c]).seq, cause |-> cause,
                       out |-> <<>>,
                       res |-> IF IsEmptyAudio(cl[c].audio_buffer)
                               THEN <<EmptyResult>> ELSE <<>>])]
    /\ IF IsEmptyAudio(cl[c].audio_buffer)
       THEN /\ clients' = cl
            /\ pending' = [pending EXCEPT ![c] = <<EmptyResult>>]
            /\ pc' = [pc EXCEPT ![c] = "send"]
            /\ UNCHANGED <<sent, outs, exit>>
       ELSE IF ~FromBufferOk(cl[c].audio_buffer)
       THEN Ends(c, cl, "error")
       ELSE /\ clients' = cl
            /\ pc' = [pc EXCEPT ![c] = "generate"]
            /\ UNCHANGED <<sent, pending, outs, exit>>

\* ------------------------------------------------------------------ actions
\* websockets.serve starts process_audio for a new connection (server.py:64-67)
Connect(c) ==
    /\ c \in Plan.conns
    /\ pc[c] = "idle"
    /\ LoopIdle
    /\ conn' = [conn EXCEPT ![c] = "open"]
    /\ clients' = Put(clients, c, NewSession)
    /\ ins' = [ins EXCEPT ![c] = @ + 1]
    /\ pc' = [pc EXCEPT ![c] = "recv"]
    /\ UNCHANGED cvars
    /\ UNCHANGED <<scn, inbox, pending, sent, nsend, handled, fed, dispatched,
                   outs, exit>>

\* a message of the client reaches the connection's receive queue
Arrive(c) ==
    /\ conn[c] = "open"
    /\ Running(c)
    /\ nsend[c] < Plan.msgs
    /\ Len(inbox[c]) < MaxInbox
    /\ \E m \in {BinMsg(nsend[c] + 1, f) : f \in Plan.frames}
              \cup {TextMsg(nsend[c] + 1, s) : s \in Plan.texts} :
          inbox' = [inbox EXCEPT ![c] = Append(@, m)]
    /\ nsend' = [nsend EXCEPT ![c] = @ + 1]
    /\ UNCHANGED cvars
    /\ UNCHANGED <<scn, clients, conn, pc, pending, sent, handled, fed,
                   dispatched, ins, outs, exit>>

\* the peer closes the connection, with a close code (1000/1001) or without
PeerClose(c) ==
    /\ conn[c] = "open"
    /\ Running(c)
    /\ \E how \in {"closedOK", "closedError"} :
          conn' = [conn EXCEPT ![c] = how]
    /\ UNCHANGED cvars
    /\ UNCHANGED <<scn, clients, pc, inbox, pending, sent, nsend, handled, fed,
                   dispatched, ins, outs, exit>>

\* server.py:71-73 raising: json.loads on malformed text, data.get on a JSON
\* value that is no object; caught at server.py:100
OnBadText(c) ==
    /\ Takes(c)
    /\ ~Head(inbox[c]).bin
    /\ ControlRaises(Head(inbox[c]).text)
    /\ Took(c)
    /\ Ends(c, clients, "error")
    /\ UNCHANGED cvars
    /\ UNCHANGED <<scn, conn, nsend, fed, dispatched, ins>>

WithConfigClearing(rec, s) ==
    [rec EXCEPT !.sample_rate = ConfigRate(s), !.audio_buffer = <<>>]

\* server.py:77: the one assignment of the config branch
WithConfig(rec, s) == [rec EXCEPT !.sample_rate = ConfigRate(s)]

\* server.py:75-77
OnConfig(c) ==
    /\ Takes(c)
    /\ ~Head(inbox[c]).bin
    /\ ~ControlRaises(Head(inbox[c]).text)
    /\ ControlType(Head(inbox[c]).text) = "config"
    /\ Took(c)
    /\ clients' = Put(clients, c, WithConfig(clients[c], Head(inbox[c]).text))
    /\ UNCHANGED cvars
    /\ UNCHANGED <<scn, conn, pc, pending, sent, nsend, fed, dispatched, ins,
                   outs, exit>>

\* server.py:79-82, up to the return of recognize_audio or its entry into
\* self.model.generate
OnEof(c) ==
    /\ Takes(c)
    /\ ~Head(inbox[c]).bin
    /\ ~ControlRaises(Head(inbox[c]).text)
    /\ ControlType(Head(inbox[c]).text) = "eof"
    /\ Took(c)
    /\ Dispatch(c, clients, "eof")
    /\ UNCHANGED cvars
    /\ UNCHANGED <<scn, conn, nsend, fed, ins>>

\* server.py:75/79: a control message of any other type falls through
OnOtherText(c) ==
    /\ Takes(c)
    /\ ~Head(inbox[c]).bin
    /\ ~ControlRaises(Head(inbox[c]).text)
    /\ ControlType(Head(inbox[c]).text) \notin {"config", "eof"}
    /\ Took(c)
    /\ UNCHANGED cvars
    /\ UNCHANGED <<scn, clients, conn, pc, pending, sent, nsend, fed,
                   dispatched, ins, outs, exit>>

\* server.py:86-94
OnBytes(c) ==
    /\ Takes(c)
    /\ Head(inbox[c]).bin
    /\ Took(c)
    /\ fed' = [fed EXCEPT ![c] = Append(@, Head(inbox[c]).frame)]
    /\ LET cl == SetBuffer(clients, c,
                           AppendBytes(clients[c].audio_buffer,
                                       Head(inbox[c]).frame))
       IN  IF ExceedsThreshold(cl[c].audio_buffer)
           THEN Dispatch(c, cl, "threshold")
           ELSE /\ clients' = cl
                /\ UNCHANGED <<pc, pending, sent, dispatched, outs, exit>>
    /\ UNCHANGED cvars
    /\ UNCHANGED <<scn, conn, nsend, ins>>

\* server.py:124-174: self.model.generate returns or raises, and
\* recognize_audio maps that to its result
GenerateReturns(c) ==
    /\ pc[c] = "generate"
    /\ \E out \in Plan.outs :
          /\ pending' = [pending EXCEPT ![c] = <<MapResult(out)>>]
          /\ dispatched' =
               [dispatched EXCEPT ![c][Len(dispatched[c])] =
                  [@ EXCEPT !.out = <<out>>, !.res = <<MapResult(out)>>]]
    /\ pc' = [pc EXCEPT ![c] = "send"]
    /\ UNCHANGED cvars
    /\ UNCHANGED <<scn, clients, conn, inbox, sent, nsend, handled, fed, ins,
                   outs, exit>>

\* server.py:83-84 and 95-96: the send succeeds and the buffer is cleared
SendResult(c) ==
    /\ pc[c] = "send"
    /\ LoopIdle
    /\ conn[c] = "open"
    /\ sent' = [sent EXCEPT ![c] = @ \o pending[c]]
    /\ clients' = SetBuffer(clients, c, <<>>)
    /\ fed' = [fed EXCEPT ![c] = <<>>]
    /\ pending' = [pending EXCEPT ![c] = <<>>]
    /\ pc' = [pc EXCEPT ![c] = "recv"]
    /\ UNCHANGED cvars
    /\ UNCHANGED <<scn, conn, inbox, nsend, handled, dispatched, ins, outs,
                   exit>>

\* server.py:83/95 raising ConnectionClosed, caught at server.py:98
SendFails(c) ==
    /\ pc[c] = "send"
    /\ LoopIdle
    /\ conn[c] # "open"
    /\ Ends(c, clients, "closed")
    /\ UNCHANGED cvars
    /\ UNCHANGED <<scn, conn, inbox, nsend, handled, fed, dispatched,
                   ins>>

\* server.py:70 on a closed connection with nothing left to iterate: the
\* iteration ends (close code 1000/1001) or raises ConnectionClosed
OnClosed(c) ==
    /\ LoopIdle
    /\ AtRecv(c)
    /\ inbox[c] = <<>>
    /\ conn[c] \in {"closedOK", "closedError"}
    /\ Ends(c, clients, IF conn[c] = "closedOK" THEN "normal" ELSE "closed")
    /\ UNCHANGED cvars
    /\ UNCHANGED <<scn, conn, inbox, nsend, handled, fed, dispatched,
                   ins>>

Next ==
    \E c \in Conn :
        \/ Connect(c)
        \/ Arrive(c)
        \/ PeerClose(c)
        \/ OnBadText(c)
        \/ OnConfig(c)
        \/ OnEof(c)
        \/ OnOtherText(c)
        \/ OnBytes(c)
        \/ GenerateReturns(c)
        \/ SendResult(c)
        \/ SendFails(c)
        \/ OnClosed(c)

Spec == Init /\ [][Next]_vars

\* ================================================================== client
\* src/client.py: the ASRClient object, driven through its methods on the
\* event-loop thread, with PyAudio's callback thread beside it.

MaxResults == 3
MaxFrames == 2
MaxCalls == 4
MaxTime == 2
MaxConnects == 2
MaxMail == 1

\* client.py:18
chunk_size == 1600

\* ----------------------------------------------------------------- Python str
\* a str is the sequence of its characters
Hello == <<"h", "e", "l", "l", "o">>
World == <<"w", "o", "r", "l", "d">>
Lo == <<"l", "o">>
Space == <<" ">>
HelloWorld == Hello \o Space \o World

\* str.endswith
EndsWith(s, t) ==
    /\ Len(t) <= Len(s)
    /\ SubSeq(s, Len(s) - Len(t) + 1, Len(s)) = t

\* the `in` operator of str: t occurs in s
Contains(s, t) ==
    \E i \in 1..(Len(s) - Len(t) + 1) : SubSeq(s, i, i + Len(t) - 1) = t

\* s is a prefix of t (str.startswith, the other way round)
IsPrefix(s, t) == Len(s) <= Len(t) /\ SubSeq(t, 1, Len(s)) = s

\* ------------------------------------------------- messages of the server
MsgHello == "{\"text\": \"hello\", \"timestamps\": []}"
MsgHelloWorld == "{\"text\": \"hello world\", \"timestamps\": []}"
MsgWorld == "{\"text\": \"world\", \"timestamps\": []}"
MsgLo == "{\"text\": \"lo\", \"timestamps\": []}"
MsgEmpty == "{\"text\": \"\", \"timestamps\": []}"
MsgError == "{\"text\": \"hello\", \"error\": \"boom\", \"timestamps\": []}"
MsgNoText == "{\"timestamps\": []}"
MsgList == "[\"hello\"]"
MsgMalformed == "{\"text\": \"hello\""

Loaded(ok, isdict, hasError, hasText, text) ==
    [ok |-> ok, isdict |-> isdict, hasError |-> hasError, hasText |-> hasText,
     text |-> text]

\* client.py:109, json.loads(message)
LoadResult(m) ==
    CASE m = MsgHello -> Loaded(TRUE, TRUE, FALSE, TRUE, Hello)
      [] m = MsgHelloWorld -> Loaded(TRUE, TRUE, FALSE, TRUE, HelloWorld)
      [] m = MsgWorld -> Loaded(TRUE, TRUE, FALSE, TRUE, World)
      [] m = MsgLo -> Loaded(TRUE, TRUE, FALSE, TRUE, Lo)
      [] m = MsgEmpty -> Loaded(TRUE, TRUE, FALSE, TRUE, <<>>)
      [] m = MsgError -> Loaded(TRUE, TRUE, TRUE, TRUE, Hello)
      [] m = MsgNoText -> Loaded(TRUE, TRUE, FALSE, FALSE, <<>>)
      [] m = MsgList -> Loaded(TRUE, FALSE, FALSE, FALSE, <<>>)
      [] OTHER -> Loaded(FALSE, FALSE, FALSE, FALSE, <<>>)

\* client.py:109/131: json.loads raises JSONDecodeError
IsMalformed(m) == ~LoadResult(m).ok

\* client.py:112
IsErrorResult(m) ==
    LoadResult(m).ok /\ LoadResult(m).isdict /\ LoadResult(m).hasError

\* client.py:117-119: the local `text`
ResultText(m) ==
    IF LoadResult(m).isdict /\ LoadResult(m).hasText
    THEN LoadResult(m).text ELSE <<>>

\* ------------------------------------------------------------- aggregator
AggregateNoSeparator(acc, text) ==
    IF ~EndsWith(acc, text) /\ ~Contains(acc, text)
    THEN acc \o text
    ELSE acc

AggregateSuffixOnly(acc, text) ==
    IF ~EndsWith(acc, text)
    THEN IF acc # <<>> THEN acc \o Space \o text ELSE text
    ELSE acc

AggregateReplacing(acc, text) ==
    IF ~EndsWith(acc, text) /\ ~Contains(acc, text)
    THEN text
    ELSE acc

AggregateAlways(acc, text) ==
    IF acc # <<>> THEN acc \o Space \o text ELSE text

\* client.py:122-126: accumulated_text after a non-empty text
Aggregate(acc, text) ==
    IF ~EndsWith(acc, text) /\ ~Contains(acc, text)
    THEN IF acc # <<>> THEN acc \o Space \o text ELSE text
    ELSE acc

\* ------------------------------------------------------------ what is sent
\* a send: a text or binary message bound to the connection object w it was
\* made for, with the count of stop_recording calls issued when it was handed
\* over (history, not on the wire)
Sending(bin, text, frame, k, w) ==
    [bin |-> bin, text |-> text, frame |-> frame, stops |-> k, ws |-> w]

\* client.py:36-39
ConfigMsg(w) == Sending(FALSE, TxtConfig16k, <<0, 0>>, 0, w)

\* client.py:58, in_data: chunk_size samples of paInt16 (client.py:66-70)
FrameMsg(k, w) == Sending(TRUE, "", <<1, chunk_size * SampleWidth>>, k, w)

\* client.py:94
EofMsg(k, w) == Sending(FALSE, TxtEof, <<0, 0>>, k, w)

HandoffFront(q, m) == <<m>> \o q

\* client.py:57-60 and 93-96, asyncio.run_coroutine_threadsafe: the loop runs
\* what it is handed in the order of the hand-overs
Handoff(q, m) == Append(q, m)

\* client.py:55 and 91
Connected == websocket # "None" /\ loop # "None"

\* the connection object self.websocket refers to when it is set: the one
\* made last (client.py:35)
Current == Len(links)

\* client.py:19 and 172-174: self.audio serves until disconnect sets it None
AudioAlive == audio # "None"

NeverAlreadyRecording == FALSE

\* client.py:48
AlreadyRecording == is_recording

\* ---------------------------------------------------------------- scenarios
\* what the server sends, how often the device calls back, how many
\* start_recording/stop_recording and connect calls are made, whether
\* disconnect is called, and whether the network and the device may fail
ClientScenario(msgs, results, frames, ncalls, nconnects, disconnects, faults) ==
    [msgs |-> msgs, results |-> results, frames |-> frames, calls |-> ncalls,
     connects |-> nconnects, disconnects |-> disconnects, faults |-> faults]

\* results with a text, over two recording sessions, the device silent and
\* the connection kept
TranscriptScn ==
    ClientScenario({MsgHello, MsgHelloWorld, MsgWorld, MsgLo},
                   MaxResults, 0, MaxCalls - 1, 1, FALSE, FALSE)

\* messages of every other kind among results
RepliesScn ==
    ClientScenario({MsgHello, MsgEmpty, MsgError, MsgNoText, MsgList,
                    MsgMalformed},
                   MaxResults - 1, 0, MaxCalls - 2, 1, FALSE, FALSE)

\* audio frames around the calls, and one result, the connection kept
RelayScn ==
    ClientScenario({MsgHello}, 1, MaxFrames, MaxCalls, 1, FALSE, FALSE)

\* a connection that fails or is closed, by disconnect or by the server,
\* around a recording session, and a device that fails to open
FaultScn ==
    ClientScenario({MsgHello}, 1, 1, MaxCalls - 2, 1, TRUE, TRUE)

\* connect() called again, with or without a connection, while recording
ReconnectScn ==
    ClientScenario({MsgHello}, 1, 1, MaxCalls - 3, MaxConnects, TRUE, TRUE)

ClientScenarios == {"transcript", "replies", "relay", "fault", "reconnect"}

ClientPlan ==
    CASE scn = "transcript" -> TranscriptScn
      [] scn = "replies" -> RepliesScn
      [] scn = "relay" -> RelayScn
      [] scn = "reconnect" -> ReconnectScn
      [] OTHER -> FaultScn

InitClient ==
    /\ scn \in ClientScenarios
    /\ ServerNew
    /\ ClientNew

\* the event-loop thread is between callbacks: not inside start_recording or
\* stop_recording, which run on it without yielding
MainIdle == mpc = "idle"

\* ------------------------------------------------------------------ actions
\* client.py:31-35: connect() sets self.loop and waits for websockets.connect
ConnectCalled ==
    /\ MainIdle
    /\ cpc = "idle"
    /\ connects < ClientPlan.connects
    /\ connects' = connects + 1
    /\ loop' = "loop"
    /\ cpc' = "connecting"
    /\ UNCHANGED <<websocket, audio, links, mails, stream, is_recording,
                   current_text, accumulated_text, session_start_time, now, mpc,
                   dpc, dws, receiver, rws, ready, wire, rx, narrived, nrecv,
                   nframes, stops, calls>>
    /\ UNCHANGED <<scn, svars>>

\* client.py:35-41: websockets.connect returns a new connection, which
\* self.websocket now refers to; the config message is sent on it and
\* connect() returns True
ConnectReturns ==
    /\ MainIdle
    /\ cpc = "connecting"
    /\ links' = Append(links, "up")
    /\ mails' = Append(mails, <<>>)
    /\ websocket' = "ws"
    /\ wire' = Append(wire, ConfigMsg(Current + 1))
    /\ cpc' = "idle"
    /\ UNCHANGED <<loop, audio, stream, is_recording, current_text,
                   accumulated_text, session_start_time, now, mpc, dpc, dws,
                   receiver, rws, ready, rx, narrived, nrecv, nframes, stops,
                   calls, connects>>
    /\ UNCHANGED <<scn, svars>>

\* client.py:35 and 42-44: websockets.connect raises, connect() returns False
ConnectRefused ==
    /\ MainIdle
    /\ ClientPlan.faults
    /\ cpc = "connecting"
    /\ cpc' = "idle"
    /\ UNCHANGED <<loop, websocket, audio, links, mails, stream, is_recording,
                   current_text, accumulated_text, session_start_time, now, mpc,
                   dpc, dws, receiver, rws, ready, wire, rx, narrived, nrecv,
                   nframes, stops, calls, connects>>
    /\ UNCHANGED <<scn, svars>>

\* client.py:35-39 and 42-44: websockets.connect returns and self.websocket
\* is assigned, but the connection is gone when the config message is sent:
\* send raises, connect() returns False
ConnectSendFails ==
    /\ MainIdle
    /\ ClientPlan.faults
    /\ cpc = "connecting"
    /\ links' = Append(links, "down")
    /\ mails' = Append(mails, <<>>)
    /\ websocket' = "ws"
    /\ cpc' = "idle"
    /\ UNCHANGED <<loop, audio, stream, is_recording, current_text,
                   accumulated_text, session_start_time, now, mpc, dpc, dws,
                   receiver, rws, ready, wire, rx, narrived, nrecv, nframes,
                   stops, calls, connects>>
    /\ UNCHANGED <<scn, svars>>

\* main (client.py:189) starts receive_results, which returns at once without
\* a websocket (102-103) and otherwise waits at recv on the connection
\* self.websocket refers to (107)
ReceiverStarts ==
    /\ MainIdle
    /\ receiver = "off"
    /\ receiver' = IF websocket = "None" THEN "done" ELSE "recv"
    /\ rws' = IF websocket = "None" THEN 0 ELSE Current
    /\ UNCHANGED <<loop, websocket, audio, links, mails, stream, is_recording,
                   current_text, accumulated_text, session_start_time, now, mpc,
                   cpc, dpc, dws, ready, wire, rx, narrived, nrecv, nframes,
                   stops, calls, connects>>
    /\ UNCHANGED <<scn, svars>>

\* the server's next message m reaches connection w of the client
MessageArrives ==
    \E w \in DOMAIN links : \E m \in ClientPlan.msgs :
        /\ links[w] \in {"up", "closing"}
        /\ Len(mails[w]) < MaxMail
        /\ narrived < ClientPlan.results
        /\ narrived' = narrived + 1
        /\ mails' = [mails EXCEPT ![w] = Append(@, m)]
        /\ UNCHANGED <<loop, websocket, audio, links, stream, is_recording,
                       current_text, accumulated_text, session_start_time, now, mpc,
                       cpc, dpc, dws, receiver, rws, ready, wire, rx, nrecv, nframes,
                       stops, calls, connects>>
        /\ UNCHANGED <<scn, svars>>

\* client.py:48-49: start_recording returns at once
StartWhileRecording ==
    /\ MainIdle
    /\ Len(calls) < ClientPlan.calls
    /\ AlreadyRecording
    /\ calls' = Append(calls, "start")
    /\ UNCHANGED <<loop, websocket, audio, links, mails, stream, is_recording,
                   current_text, accumulated_text, session_start_time, now, mpc,
                   cpc, dpc, dws, receiver, rws, ready, wire, rx, narrived,
                   nrecv, nframes, stops, connects>>
    /\ UNCHANGED <<scn, svars>>

\* client.py:48-65: start_recording passes its guard, resets the session and
\* calls self.audio.open; t is what time.time() returns
StartResets ==
    /\ MainIdle
    /\ Len(calls) < ClientPlan.calls
    /\ ~AlreadyRecording
    /\ calls' = Append(calls, "start")
    /\ \E t \in now..(IF now < MaxTime THEN now + 1 ELSE now) :
          /\ now' = t
          /\ session_start_time' = t
    /\ accumulated_text' = <<>>
    /\ rx' = <<>>
    /\ mpc' = "starting"
    /\ UNCHANGED <<loop, websocket, audio, links, mails, stream, is_recording,
                   current_text, cpc, dpc, dws, receiver, rws, ready, wire,
                   narrived, nrecv, nframes, stops, connects>>
    /\ UNCHANGED <<scn, svars>>

\* client.py:65-74: self.audio.open returns the started stream
StartOpens ==
    /\ mpc \in {"starting", "started"}
    /\ AudioAlive
    /\ stream' = "open"
    /\ is_recording' = TRUE
    /\ mpc' = "idle"
    /\ UNCHANGED <<loop, websocket, audio, links, mails, current_text,
                   accumulated_text, session_start_time, now, cpc, dpc, dws,
                   receiver, rws, ready, wire, rx, narrived, nrecv, nframes,
                   stops, calls, connects>>
    /\ UNCHANGED <<scn, svars>>

\* client.py:65: self.audio.open raises (AttributeError when self.audio is
\* None, OSError when the device cannot be opened); lines 72-74 are not reached
StartRaises ==
    /\ mpc = "starting"
    /\ ~AudioAlive \/ ClientPlan.faults
    /\ mpc' = "idle"
    /\ UNCHANGED <<loop, websocket, audio, links, mails, stream, is_recording,
                   current_text, accumulated_text, session_start_time, now, cpc,
                   dpc, dws, receiver, rws, ready, wire, rx, narrived, nrecv,
                   nframes, stops, calls, connects>>
    /\ UNCHANGED <<scn, svars>>

\* client.py:54-63, audio_callback on PyAudio's thread: the stream calls back
\* from the moment self.audio.open has started it, also before open returns
AudioCallback ==
    /\ \/ stream = "open"
       \/ mpc \in {"starting", "started"} /\ AudioAlive
    /\ nframes < ClientPlan.frames
    /\ nframes' = nframes + 1
    /\ mpc' = IF mpc = "starting" THEN "started" ELSE mpc
    /\ ready' = IF Connected
                THEN Handoff(ready, FrameMsg(stops, Current))
                ELSE ready
    /\ UNCHANGED <<loop, websocket, audio, links, mails, stream, is_recording,
                   current_text, accumulated_text, session_start_time, now, cpc,
                   dpc, dws, receiver, rws, wire, rx, narrived, nrecv, stops,
                   calls, connects>>
    /\ UNCHANGED <<scn, svars>>

\* client.py:80-81: stop_recording returns at once
StopWhileStopped ==
    /\ MainIdle
    /\ Len(calls) < ClientPlan.calls
    /\ ~is_recording
    /\ calls' = Append(calls, "stop")
    /\ UNCHANGED <<loop, websocket, audio, links, mails, stream, is_recording,
                   current_text, accumulated_text, session_start_time, now, mpc,
                   cpc, dpc, dws, receiver, rws, ready, wire, rx, narrived,
                   nrecv, nframes, stops, connects>>
    /\ UNCHANGED <<scn, svars>>

\* client.py:80-84: stop_recording passes its guard and calls stop_stream(),
\* which returns only when no callback is running any more
StopIssued ==
    /\ MainIdle
    /\ Len(calls) < ClientPlan.calls
    /\ is_recording
    /\ calls' = Append(calls, "stop")
    /\ stops' = stops + 1
    /\ mpc' = "stopping"
    /\ UNCHANGED <<loop, websocket, audio, links, mails, stream, is_recording,
                   current_text, accumulated_text, session_start_time, now, cpc,
                   dpc, dws, receiver, rws, ready, wire, rx, narrived, nrecv,
                   nframes, connects>>
    /\ UNCHANGED <<scn, svars>>

\* client.py:84-96: stop_stream() has returned; the stream is closed and the
\* eof message handed to the loop
StopTeardown ==
    /\ mpc = "stopping"
    /\ stream' = IF stream # "None" THEN "None" ELSE stream
    /\ is_recording' = FALSE
    /\ ready' = IF Connected
                THEN Handoff(ready, EofMsg(stops, Current))
                ELSE ready
    /\ mpc' = "idle"
    /\ UNCHANGED <<loop, websocket, audio, links, mails, current_text,
                   accumulated_text, session_start_time, now, cpc, dpc, dws,
                   receiver, rws, wire, rx, narrived, nrecv, nframes, stops,
                   calls, connects>>
    /\ UNCHANGED <<scn, svars>>

\* the loop runs the next send handed to it: send writes the message on the
\* connection it was made for, or raises when that one is closing or closed
LoopRuns ==
    /\ MainIdle
    /\ ready # <<>>
    /\ ready' = Tail(ready)
    /\ wire' = IF links[Head(ready).ws] = "up"
               THEN Append(wire, Head(ready))
               ELSE wire
    /\ UNCHANGED <<loop, websocket, audio, links, mails, stream, is_recording,
                   current_text, accumulated_text, session_start_time, now, mpc,
                   cpc, dpc, dws, receiver, rws, rx, narrived, nrecv, nframes,
                   stops, calls, connects>>
    /\ UNCHANGED <<scn, svars>>

\* client.py:107: recv returns the message m that its connection has held
\* longest, also when that connection has closed since; the loop of
\* receive_results then comes back to line 107, where self.websocket.recv()
\* waits on the connection self.websocket refers to by then, or raises
\* AttributeError without one (caught at 138)
Receives(m) ==
    /\ MainIdle
    /\ receiver = "recv"
    /\ mails[rws] # <<>>
    /\ m = Head(mails[rws])
    /\ mails' = [mails EXCEPT ![rws] = Tail(@)]
    /\ nrecv' = nrecv + 1
    /\ rx' = Append(rx, m)
    /\ receiver' = IF websocket = "None" THEN "done" ELSE "recv"
    /\ rws' = IF websocket = "None" THEN 0 ELSE Current

\* client.py:107-109 and 131-132: the message is no JSON
ReceiveMalformed ==
    \E m \in ClientPlan.msgs :
        /\ Receives(m)
        /\ IsMalformed(m)
        /\ UNCHANGED <<loop, websocket, audio, links, stream, is_recording,
                       current_text, accumulated_text, session_start_time, now, mpc,
                       cpc, dpc, dws, ready, wire, narrived, nframes, stops, calls,
                       connects>>
        /\ UNCHANGED <<scn, svars>>

\* client.py:107-114: a result with an "error" key is logged and skipped
ReceiveError ==
    \E m \in ClientPlan.msgs :
        /\ Receives(m)
        /\ ~IsMalformed(m)
        /\ IsErrorResult(m)
        /\ UNCHANGED <<loop, websocket, audio, links, stream, is_recording,
                       current_text, accumulated_text, session_start_time, now, mpc,
                       cpc, dpc, dws, ready, wire, narrived, nframes, stops, calls,
                       connects>>
        /\ UNCHANGED <<scn, svars>>

\* client.py:107-129: any other JSON value
ReceiveResult ==
    \E m \in ClientPlan.msgs :
        /\ Receives(m)
        /\ ~IsMalformed(m)
        /\ ~IsErrorResult(m)
        /\ IF ResultText(m) # <<>>
           THEN /\ current_text' = ResultText(m)
                /\ accumulated_text' = Aggregate(accumulated_text, ResultText(m))
           ELSE UNCHANGED <<current_text, accumulated_text>>
        /\ UNCHANGED <<loop, websocket, audio, links, stream, is_recording,
                       session_start_time, now, mpc, cpc, dpc, dws, ready, wire,
                       narrived, nframes, stops, calls, connects>>
        /\ UNCHANGED <<scn, svars>>

\* client.py:107 and 136-137: the connection recv waits on has closed and
\* holds no message: recv raises ConnectionClosed, receive_results returns
ReceiverEnds ==
    /\ MainIdle
    /\ receiver = "recv"
    /\ links[rws] = "down"
    /\ mails[rws] = <<>>
    /\ receiver' = "done"
    /\ rws' = 0
    /\ UNCHANGED <<loop, websocket, audio, links, mails, stream, is_recording,
                   current_text, accumulated_text, session_start_time, now, mpc,
                   cpc, dpc, dws, ready, wire, rx, narrived, nrecv, nframes,
                   stops, calls, connects>>
    /\ UNCHANGED <<scn, svars>>

\* client.py:166-169: disconnect() with a websocket: close() sends the close
\* frame on it and waits for that connection to close
DisconnectCalled ==
    /\ MainIdle
    /\ ClientPlan.disconnects
    /\ dpc = "idle"
    /\ websocket # "None"
    /\ links' = [links EXCEPT ![Current] = IF @ = "up" THEN "closing" ELSE @]
    /\ dpc' = "closing"
    /\ dws' = Current
    /\ UNCHANGED <<loop, websocket, audio, mails, stream, is_recording,
                   current_text, accumulated_text, session_start_time, now, mpc,
                   cpc, receiver, rws, ready, wire, rx, narrived, nrecv, nframes,
                   stops, calls, connects>>
    /\ UNCHANGED <<scn, svars>>

\* a connection closes: the server answers the client's close frame, or
\* closes on its own
ConnectionCloses ==
    \E w \in DOMAIN links :
        /\ MainIdle
        /\ \/ links[w] = "closing"
           \/ links[w] = "up" /\ ClientPlan.faults
        /\ links' = [links EXCEPT ![w] = "down"]
        /\ UNCHANGED <<loop, websocket, audio, mails, stream, is_recording,
                       current_text, accumulated_text, session_start_time, now, mpc,
                       cpc, dpc, dws, receiver, rws, ready, wire, rx, narrived,
                       nrecv, nframes, stops, calls, connects>>
        /\ UNCHANGED <<scn, svars>>

\* client.py:169-174: close() has returned; self.websocket = None, the audio
\* system is terminated and self.audio = None
DisconnectReturns ==
    /\ MainIdle
    /\ dpc = "closing"
    /\ links[dws] = "down"
    /\ websocket' = "None"
    /\ audio' = "None"
    /\ dpc' = "idle"
    /\ dws' = 0
    /\ UNCHANGED <<loop, links, mails, stream, is_recording, current_text,
                   accumulated_text, session_start_time, now, mpc, cpc, receiver,
                   rws, ready, wire, rx, narrived, nrecv, nframes, stops, calls,
                   connects>>
    /\ UNCHANGED <<scn, svars>>

\* client.py:166-168 and 172-174: disconnect() without a websocket only
\* terminates the audio system
DisconnectUnconnected ==
    /\ MainIdle
    /\ ClientPlan.disconnects
    /\ dpc = "idle"
    /\ websocket = "None"
    /\ AudioAlive
    /\ audio' = "None"
    /\ UNCHANGED <<loop, websocket, links, mails, stream, is_recording,
                   current_text, accumulated_text, session_start_time, now, mpc,
                   cpc, dpc, dws, receiver, rws, ready, wire, rx, narrived,
                   nrecv, nframes, stops, calls, connects>>
    /\ UNCHANGED <<scn, svars>>

NextClient ==
    \/ ConnectCalled
    \/ ConnectReturns
    \/ ConnectRefused
    \/ ConnectSendFails
    \/ ReceiverStarts
    \/ MessageArrives
    \/ StartWhileRecording
    \/ StartResets
    \/ StartOpens
    \/ StartRaises
    \/ AudioCallback
    \/ StopWhileStopped
    \/ StopIssued
    \/ StopTeardown
    \/ LoopRuns
    \/ ReceiveMalformed
    \/ ReceiveError
    \/ ReceiveResult
    \/ ReceiverEnds
    \/ DisconnectCalled
    \/ ConnectionCloses
    \/ DisconnectReturns
    \/ DisconnectUnconnected

SpecClient == InitClient /\ [][NextClient]_vars

\* ------------------------------------------------------- reading the state
Last(q) == q[Len(q)]

RECURSIVE Concat(_)
\* the byte string of a sequence of frames, first frame first
Concat(fs) ==
    IF fs = <<>> THEN <<>> ELSE Cat(FrameBytes(Head(fs)), Concat(Tail(fs)))

\* a dispatch of c is outstanding: recognizer running or Result not yet sent
Outstanding(c) == pc[c] \in {"generate", "send"}

\* the dispatches of c fired while handling its messages 1..n
DispatchesUpTo(c, n) ==
    {i \in DOMAIN dispatched[c] : dispatched[c][i].at <= n}

\* the eof messages among the messages 1..n of c
EofsUpTo(c, n) ==
    {i \in DispatchesUpTo(c, n) : dispatched[c][i].cause = "eof"}

\* ------------------------------------------------------------------- claims

\* C1 (as claimed): whenever the frames appended to a session since its buffer
\* was last empty add up to more than 32000 bytes, the frame that crossed the
\* threshold fired exactly one dispatch, carrying the concatenation of those
\* frames, and unless that frame is still being handled (or the peer has gone)
\* the session's buffer is empty again. The code ends the session instead when
\* the accumulated length is odd.
C1_DispatchAtCrossing ==
    \A c \in Conn :
        (BufLen(Concat(fed[c])) > Threshold /\ conn[c] = "open")
        => /\ Outstanding(c)
           /\ c \in DOMAIN clients
           /\ Cardinality({i \in DOMAIN dispatched[c] :
                             dispatched[c][i].at = handled[c]}) = 1
           /\ Last(dispatched[c]).at = handled[c]
           /\ Last(dispatched[c]).cause = "threshold"
           /\ Last(dispatched[c]).audio = Concat(fed[c])

\* C2 (as claimed): ten 3200-byte frames on a fresh session fire exactly one
\* dispatch, at the tenth frame; nine such frames and then eof fire exactly
\* one dispatch, of 28800 bytes.
C2_TenthFrameDispatches ==
    \A c \in Conn :
        (scn = "stream" /\ handled[c] >= 10)
        => /\ EofsUpTo(c, 10) = {}
              => /\ Cardinality(DispatchesUpTo(c, 10)) = 1
                 /\ dispatched[c][1].at = 10
           /\ (EofsUpTo(c, 10) # {} /\ dispatched[c][1].at = 10)
              => /\ Cardinality(DispatchesUpTo(c, 10)) = 1
                 /\ BufLen(dispatched[c][1].audio) = 28800

\* C2 (amended): ten 3200-byte frames on a fresh session fire no dispatch
\* (32000 bytes do not exceed the threshold); the eleventh such frame fires
\* exactly one, carrying all 35200 bytes; nine such frames and then eof fire
\* exactly one dispatch, of 28800 bytes.
C2_EleventhFrameDispatches ==
    \A c \in Conn :
        scn = "stream"
        => /\ (handled[c] >= 10 /\ EofsUpTo(c, 10) = {})
              => DispatchesUpTo(c, 10) = {}
           /\ (handled[c] >= 11 /\ EofsUpTo(c, 11) = {})
              => /\ Cardinality(DispatchesUpTo(c, 11)) = 1
                 /\ dispatched[c][1].at = 11
                 /\ dispatched[c][1].cause = "threshold"
                 /\ dispatched[c][1].audio = << <<1, 35200>> >>
           /\ (handled[c] >= 10 /\ EofsUpTo(c, 10) # {}
                 /\ dispatched[c][1].at = 10)
              => /\ Cardinality(DispatchesUpTo(c, 10)) = 1
                 /\ BufLen(dispatched[c][1].audio) = 28800

\* C2 witness: eleven frames were handled, the dispatch of the eleventh was
\* answered and the buffer is empty again
C2_Witness ==
    /\ scn = "stream"
    /\ handled[1] = 11
    /\ EofsUpTo(1, 11) = {}
    /\ Len(dispatched[1]) = 1
    /\ Len(sent[1]) = 1
    /\ pc[1] = "recv"
    /\ Buffer(1) = <<>>

\* C3: an eof taken while the session's buffer is empty does not raise and
\* does not end the session: recognize_audio returns the Result with text ""
\* and no segments and no error, and, the connection being open, exactly that
\* Result is sent, the handler goes back to receiving and the buffer is still
\* empty.
C3_EofOnEmptyBuffer ==
    [][\A c \in Conn :
          /\ (OnEof(c) /\ Buffer(c) = <<>>)
             => /\ pc'[c] = "send"
                /\ exit'[c] = "none"
                /\ pending'[c] = << Result("", FALSE, "", <<>>) >>
                /\ Len(dispatched'[c]) = Len(dispatched[c]) + 1
                /\ c \in DOMAIN clients'
                /\ clients'[c].audio_buffer = <<>>
          /\ (/\ pc[c] = "send"
              /\ Last(dispatched[c]).audio = <<>>
              /\ conn[c] = "open"
              /\ pc'[c] # "send")
             => /\ sent'[c] = Append(sent[c], Result("", FALSE, "", <<>>))
                /\ pc'[c] = "recv"
                /\ exit'[c] = "none"
                /\ c \in DOMAIN clients'
                /\ clients'[c].audio_buffer = <<>>
      ]_vars

\* C3 witness: the last message taken was an eof on an empty buffer, its
\* Result has been sent and the session is receiving again
C3_Witness ==
    \E c \in Conn :
        /\ pc[c] = "recv"
        /\ c \in DOMAIN clients
        /\ dispatched[c] # <<>>
        /\ Last(dispatched[c]).cause = "eof"
        /\ Last(dispatched[c]).audio = <<>>
        /\ Last(dispatched[c]).at = handled[c]
        /\ Len(sent[c]) = Len(dispatched[c])
        /\ Last(sent[c]) = EmptyResult

\* C4: the session map holds a connection's id exactly while its handler
\* runs; once the handler has ended, however it ended, the id is gone, and
\* the entry was inserted once and deleted once.
C4_SessionCleanup ==
    \A c \in Conn :
        /\ pc[c] = "idle" => (c \notin DOMAIN clients /\ ins[c] = 0 /\ outs[c] = 0)
        /\ pc[c] \in {"recv", "generate", "send"}
           => (c \in DOMAIN clients /\ ins[c] = 1 /\ outs[c] = 0)
        /\ pc[c] = "done"
           => (c \notin DOMAIN clients /\ ins[c] = 1 /\ outs[c] = 1
               /\ exit[c] \in {"normal", "closed", "error"})

\* C4 witness: one handler ended on ConnectionClosed with audio buffered, the
\* other on an exception, and neither id is left in the map
C4_Witness ==
    /\ pc[1] = "done" /\ exit[1] = "closed" /\ fed[1] # <<>>
    /\ pc[2] = "done" /\ exit[2] = "error"
    /\ clients = [c \in {} |-> NewSession]

\* C5 (as claimed): a text that json.loads cannot decode is skipped: the
\* session stays in the map with its buffer and sample rate, and the handler
\* goes on to the next message. The code ends the session instead.
C5_MalformedSkipped ==
    [][\A c \in Conn :
          (/\ Takes(c)
           /\ ~Head(inbox[c]).bin
           /\ ~JsonLoads(Head(inbox[c]).text).ok
           /\ handled'[c] # handled[c])
          => /\ c \in DOMAIN clients'
             /\ clients'[c] = clients[c]
             /\ pc'[c] = "recv"
      ]_vars

\* C6: when self.model.generate raises or returns a value that is no dict,
\* recognize_audio returns a Result with the error set, text "" and no
\* segments, and the session goes on: the connection being open, exactly that
\* Result is sent, the buffer is cleared and the handler receives again; a
\* session whose last Result was an error holds, between two messages, exactly
\* the frames handled since.
C6_RecognizerFailure ==
    [][\A c \in Conn :
          /\ (/\ GenerateReturns(c)
              /\ Last(dispatched'[c]).out[1].kind \in {"raise", "list"})
             => /\ pc'[c] = "send"
                /\ exit'[c] = "none"
                /\ c \in DOMAIN clients'
                /\ Len(pending'[c]) = 1
                /\ pending'[c][1].haserror
                /\ pending'[c][1].text = ""
                /\ pending'[c][1].timestamps = <<>>
          /\ (/\ pc[c] = "send"
              /\ Last(dispatched[c]).out # <<>>
              /\ Last(dispatched[c]).out[1].kind \in {"raise", "list"}
              /\ conn[c] = "open"
              /\ pc'[c] # "send")
             => /\ sent'[c] = sent[c] \o pending[c]
                /\ Last(sent'[c]).haserror
                /\ pc'[c] = "recv"
                /\ exit'[c] = "none"
                /\ c \in DOMAIN clients'
                /\ clients'[c].audio_buffer = <<>>
          /\ (/\ pc'[c] = "recv"
              /\ sent'[c] # <<>>
              /\ Last(sent'[c]).haserror)
             => /\ c \in DOMAIN clients'
                /\ clients'[c].audio_buffer = Concat(fed'[c])
      ]_vars

\* C6 witness: the recognizer returned a list, the error Result was sent, and
\* a frame that arrived afterwards is in the buffer
C6_Witness ==
    \E c \in Conn :
        /\ pc[c] = "recv"
        /\ dispatched[c] # <<>>
        /\ Last(dispatched[c]).out = <<OutList>>
        /\ Len(sent[c]) = Len(dispatched[c])
        /\ Last(sent[c]).haserror
        /\ Buffer(c) = << <<2, 16001>> >>

\* a recognizer failure, a protocol error or a termination in session a
Trouble(a) ==
    \/ OnBadText(a)
    \/ PeerClose(a)
    \/ pc[a] # "done" /\ pc'[a] = "done"
    \/ GenerateReturns(a) /\ pending'[a][1].haserror
    \/ SendResult(a) /\ pending[a][1].haserror

\* C7: a recognizer failure, a protocol error or a termination in one session
\* leaves every other active session's buffer, sample rate, presence in the
\* session map and sent Results as they were.
C7_Isolation ==
    [][\A a \in Conn : \A b \in Conn \ {a} :
          (Trouble(a) /\ b \in DOMAIN clients)
          => /\ b \in DOMAIN clients'
             /\ clients'[b] = clients[b]
             /\ sent'[b] = sent[b]
             /\ pc'[b] = pc[b]
      ]_vars

\* C7 witness: session a got an error Result and has ended, session b is
\* still active with audio buffered and a configured sample rate
C7_Witness ==
    \E a \in Conn : \E b \in Conn \ {a} :
        /\ pc[a] = "done"
        /\ sent[a] # <<>>
        /\ Last(sent[a]).haserror
        /\ b \in DOMAIN clients
        /\ clients[b].audio_buffer # <<>>
        /\ clients[b].sample_rate = 8000

\* C8 (as claimed): the Results sent on a connection are the results of its
\* dispatches, one each and in dispatch order, and while the peer has not
\* closed, every dispatch that is no longer outstanding has its Result sent.
\* The code sends nothing for a dispatch whose audio has an odd byte length.
C8_OneResultPerDispatch ==
    \A c \in Conn :
        /\ Len(sent[c]) <= Len(dispatched[c])
        /\ \A i \in DOMAIN sent[c] : dispatched[c][i].res = <<sent[c][i]>>
        /\ (conn[c] = "open" /\ ~Outstanding(c))
           => Len(sent[c]) = Len(dispatched[c])

\* C9: at most one call of self.model.generate is in progress at any time.
C9_OneRecognition ==
    Cardinality({c \in Conn : pc[c] = "generate"}) <= 1

\* C9 witness: session 1 is inside the recognizer while the next frame of
\* session 2, which takes its buffer over the threshold, waits to be handled
C9_Witness ==
    /\ pc[1] = "generate"
    /\ pc[2] = "recv"
    /\ inbox[2] # <<>>
    /\ Head(inbox[2]).bin
    /\ ExceedsThreshold(AppendBytes(Buffer(2), Head(inbox[2]).frame))

\* C10: while a dispatch of a session is outstanding the handler takes no
\* message of that connection, so nothing is appended to its buffer and no
\* second dispatch starts; messages are taken one at a time in arrival order.
C10_OneDispatchInFlight ==
    [][\A c \in Conn :
          /\ Outstanding(c)
             => /\ handled'[c] = handled[c]
                /\ Len(dispatched'[c]) = Len(dispatched[c])
                /\ c \in DOMAIN clients'
                   => clients'[c].audio_buffer =
                        IF pc'[c] = "recv" THEN <<>>
                        ELSE clients[c].audio_buffer
          /\ handled'[c] # handled[c]
             => /\ inbox[c] # <<>>
                /\ handled'[c] = handled[c] + 1
                /\ Head(inbox[c]).seq = handled'[c]
                /\ inbox'[c] = Tail(inbox[c])
      ]_vars

\* C10 witness: a Result is about to be sent while two later messages of the
\* same connection wait in its queue
C10_Witness ==
    \E c \in Conn :
        /\ pc[c] = "send"
        /\ conn[c] = "open"
        /\ Len(inbox[c]) = 2
        /\ Head(inbox[c]).bin

\* C11 (as claimed): every session's buffer always holds a whole number of
\* 16-bit samples, and so does the audio of every dispatch. The code appends
\* frames of any length as they come.
C11_WholeSamples ==
    \A c \in Conn :
        /\ BufLen(Buffer(c)) % SampleWidth = 0
        /\ \A i \in DOMAIN dispatched[c] :
              BufLen(dispatched[c][i].audio) % SampleWidth = 0

\* C12: the step in which a handler ends sends no Result and leaves the
\* session, buffer included, out of the map; when it ends on a close no call
\* of recognize_audio is made for the audio left; and once it has ended no
\* message of the connection is taken, dispatched or answered.
C12_CloseDiscards ==
    [][\A c \in Conn :
          /\ (pc[c] # "done" /\ pc'[c] = "done")
             => /\ sent'[c] = sent[c]
                /\ c \notin DOMAIN clients'
                /\ exit'[c] \in {"normal", "closed"}
                   => dispatched'[c] = dispatched[c]
          /\ pc[c] = "done"
             => /\ pc'[c] = "done"
                /\ handled'[c] = handled[c]
                /\ inbox'[c] = inbox[c]
                /\ dispatched'[c] = dispatched[c]
                /\ sent'[c] = sent[c]
                /\ c \notin DOMAIN clients'
      ]_vars

\* C12 witness: the peer closed with 16000 bytes buffered and never
\* dispatched; the handler has ended, nothing was dispatched or sent
C12_Witness ==
    \E c \in Conn :
        /\ pc[c] = "done"
        /\ exit[c] = "normal"
        /\ fed[c] = << <<1, 16000>> >>
        /\ dispatched[c] = <<>>
        /\ sent[c] = <<>>
        /\ c \notin DOMAIN clients

\* C13: handling a config message changes the session's sample rate and
\* nothing else: the buffer is kept, no dispatch fires, no Result is sent.
\* A session starts at 16000 Hz and only a config message changes its rate, so
\* without a config message every dispatch carries 16000; each dispatch
\* carries the rate the session holds when it fires.
C13_ConfigOnlyRate ==
    [][\A c \in Conn :
          /\ OnConfig(c)
             => /\ clients'[c].sample_rate = ConfigRate(Head(inbox[c]).text)
                /\ clients'[c].audio_buffer = clients[c].audio_buffer
                /\ dispatched'[c] = dispatched[c]
                /\ sent'[c] = sent[c]
                /\ pending'[c] = pending[c]
                /\ pc'[c] = "recv"
          /\ (c \notin DOMAIN clients /\ c \in DOMAIN clients')
             => clients'[c].sample_rate = DefaultRate
          /\ ( /\ c \in DOMAIN clients
               /\ c \in DOMAIN clients'
               /\ clients'[c].sample_rate # clients[c].sample_rate )
             => OnConfig(c)
          /\ Len(dispatched'[c]) > Len(dispatched[c])
             => Last(dispatched'[c]).rate = clients[c].sample_rate
          /\ Plan.texts \cap {TxtConfig8k, TxtConfigBare} = {}
             => \A i \in DOMAIN dispatched[c] :
                   dispatched[c][i].rate = DefaultRate
      ]_vars

\* C13 witness: 16000 bytes, then a config message naming another rate, then
\* eof: the dispatch carries the 16000 bytes at the new rate
C13_Witness ==
    \E c \in Conn :
        /\ Len(dispatched[c]) = 1
        /\ dispatched[c][1].at = 3
        /\ dispatched[c][1].cause = "eof"
        /\ dispatched[c][1].audio = << <<1, 16000>> >>
        /\ dispatched[c][1].rate = ConfigRate(TxtConfig8k)
        /\ dispatched[c][1].rate # DefaultRate

\* ------------------------------------------------------ claims on the client
\* every message the server side of this model lets the client receive
AllMsgs ==
    TranscriptScn.msgs \cup RepliesScn.msgs \cup RelayScn.msgs \cup FaultScn.msgs

\* the eof messages in a queue of sends
EofsIn(q) == Cardinality({i \in DOMAIN q : q[i].text = TxtEof})

\* C14 (as claimed): from an empty transcript, once "hello", "hello world" and
\* "world" have been received in that order, accumulated_text is "hello world".
C14_HelloWorld ==
    rx = <<MsgHello, MsgHelloWorld, MsgWorld>> => accumulated_text = HelloWorld

\* C14 (amended): from an empty transcript, "hello" then "hello world" leave
\* accumulated_text at "hello hello world" ("hello world" does not occur in
\* "hello", so it is appended), and the third result "world" appends nothing.
C14_HelloHelloWorld ==
    ( \/ rx = <<MsgHello, MsgHelloWorld>>
      \/ rx = <<MsgHello, MsgHelloWorld, MsgWorld>> )
    => accumulated_text = Hello \o Space \o HelloWorld

\* C14 witness: the three results have been received
C14_Witness ==
    /\ rx = <<MsgHello, MsgHelloWorld, MsgWorld>>
    /\ current_text = World
    /\ accumulated_text = Hello \o Space \o HelloWorld

\* C15: a result whose non-empty text already occurs in accumulated_text
\* leaves accumulated_text as it is; and a result that repeats the message
\* received just before it never changes accumulated_text.
C15_ContainedTextDropped ==
    [][\A m \in AllMsgs :
          (rx' = Append(rx, m) /\ ResultText(m) # <<>>)
          => /\ Contains(accumulated_text, ResultText(m))
                => accumulated_text' = accumulated_text
             /\ (rx # <<>> /\ Last(rx) = m)
                => accumulated_text' = accumulated_text
      ]_vars

\* C15 witness: "lo", which occurs inside "hello world", received twice after it
C15_Witness ==
    /\ rx = <<MsgHelloWorld, MsgLo, MsgLo>>
    /\ current_text = Lo
    /\ accumulated_text = HelloWorld

\* C16: a step leaves accumulated_text a prefix of its new value, unless it is
\* the step in which start_recording, called while stopped, begins a new
\* session, which empties it.
C16_OnlyGrows ==
    [][ \/ IsPrefix(accumulated_text, accumulated_text')
        \/ /\ accumulated_text' = <<>>
           /\ ~is_recording
           /\ calls' = Append(calls, "start")
      ]_vars

\* C16 witness: a second session, begun after a result had been received, in
\* which the transcript has grown twice
C16_Witness ==
    /\ is_recording
    /\ stops >= 1
    /\ nrecv = 3
    /\ rx = <<MsgWorld, MsgHello>>
    /\ accumulated_text = World \o Space \o Hello

\* C17 (as claimed): for no received text t does accumulated_text contain
\* t, a space, and t again.
C17_NoImmediateRepeat ==
    \A i \in DOMAIN rx :
        ResultText(rx[i]) # <<>>
        => ~Contains(accumulated_text,
                     ResultText(rx[i]) \o Space \o ResultText(rx[i]))

\* C17 (amended): accumulated_text changes on a result only by getting the
\* result's non-empty text t appended (after one space unless it was empty),
\* and only when it did not contain t; so no text is appended right after
\* itself, and right after the append accumulated_text does not end with
\* t, a space, t.
C17_AppendsOnlyNewText ==
    [][(accumulated_text' # accumulated_text /\ accumulated_text' # <<>>)
       => \E m \in AllMsgs :
             /\ rx' = Append(rx, m)
             /\ ResultText(m) # <<>>
             /\ ~Contains(accumulated_text, ResultText(m))
             /\ ~EndsWith(accumulated_text, ResultText(m))
             /\ accumulated_text' =
                  IF accumulated_text = <<>>
                  THEN ResultText(m)
                  ELSE accumulated_text \o Space \o ResultText(m)
             /\ ~EndsWith(accumulated_text',
                          ResultText(m) \o Space \o ResultText(m))
      ]_vars

\* C17 witness: "hello world" appended after "hello"
C17_Witness ==
    /\ rx = <<MsgHello, MsgHelloWorld>>
    /\ current_text = HelloWorld
    /\ accumulated_text = Hello \o Space \o HelloWorld

\* C18 (as claimed): right after the step that takes the client from STOPPED to
\* RECORDING, accumulated_text and current_text are empty and
\* session_start_time is the time just read. The code leaves current_text alone.
C18_StartResets ==
    [][(~is_recording /\ is_recording')
       => /\ accumulated_text' = <<>>
          /\ current_text' = <<>>
          /\ session_start_time' = now'
      ]_vars

\* C19: start_recording called while recording and stop_recording called while
\* stopped change nothing of the client: not the recording state, the stream,
\* the transcript or the session start, and nothing is handed to the loop or
\* written. The number of eof messages handed over or written grows only in a
\* step from RECORDING to STOPPED, and by one; such a step of a connected
\* client hands over exactly the eof of that stop; no more eofs are written
\* than stops were made.
C19_NoOpsAndOneEof ==
    [][ /\ ( \/ calls' = Append(calls, "start") /\ is_recording
             \/ calls' = Append(calls, "stop") /\ ~is_recording )
           => UNCHANGED <<is_recording, stream, mpc, current_text,
                          accumulated_text, session_start_time, rx, ready,
                          wire, websocket, loop, links, stops>>
        /\ EofsIn(ready') + EofsIn(wire') > EofsIn(ready) + EofsIn(wire)
           => /\ is_recording
              /\ ~is_recording'
              /\ EofsIn(ready') + EofsIn(wire') =
                    EofsIn(ready) + EofsIn(wire) + 1
        /\ (is_recording /\ ~is_recording' /\ Connected)
           => ready' = Append(ready, EofMsg(stops, Current))
        /\ EofsIn(wire) <= stops
      ]_vars

\* C19 witness: both calls made in the state they aim at, around one stop
\* whose eof has been written
C19_Witness ==
    /\ calls = <<"start", "start", "stop", "stop">>
    /\ accumulated_text = Hello
    /\ ~is_recording
    /\ EofsIn(wire) = 1

\* C20: on the wire, no audio frame that the callback handed over before a
\* stop_recording call was issued comes after the eof of that call.
C20_EofAfterFrames ==
    \A i \in DOMAIN wire : \A j \in DOMAIN wire :
        (i < j /\ wire[i].text = TxtEof /\ wire[j].bin)
        => wire[j].stops >= wire[i].stops

\* C20 witness: a frame of the first session, the eof of the first stop, and
\* a frame of the second session have been written, in that order
C20_Witness ==
    \E i \in DOMAIN wire : \E j \in DOMAIN wire : \E k \in DOMAIN wire :
        /\ i < j
        /\ j < k
        /\ wire[i].bin
        /\ wire[i].stops = 0
        /\ wire[j] = EofMsg(1, 1)
        /\ wire[k].bin
        /\ wire[k].stops = 1

\* C21 (as claimed): once stop_recording has passed its guard and until its
\* teardown is done, the capture callback hands no binary message to the loop:
\* every binary message queued after such a step was queued before it. The
\* callback of the code tests only self.websocket and self.loop.
C21_DroppedAfterStop ==
    [][mpc = "stopping"
       => \A i \in DOMAIN ready' :
             ready'[i].bin => (i \in DOMAIN ready /\ ready[i] = ready'[i])
      ]_vars

\* C22: a session whose handler waits for its next message holds at most
\* 32000 bytes; a longer buffer belongs to a handler inside a dispatch
\* (recognizer running or Result not yet sent).
C22_BufferAtRest ==
    \A c \in DOMAIN clients :
        /\ pc[c] = "recv" => BufLen(Buffer(c)) <= Threshold
        /\ BufLen(Buffer(c)) > Threshold => Outstanding(c)

\* C22 witness: a handler back at its receive after a threshold dispatch of
\* more than 32000 bytes, with a full 32000 bytes buffered again
C22_Witness ==
    \E c \in DOMAIN clients :
        /\ pc[c] = "recv"
        /\ BufLen(Buffer(c)) = Threshold
        /\ \E i \in DOMAIN dispatched[c] :
              /\ dispatched[c][i].cause = "threshold"
              /\ BufLen(dispatched[c][i].audio) > Threshold

====
